---- MODULE Spec2Model ----
(***************************************************************************)
(* PNGme: a chunk-based container (PNG layout) with a hidden-message CLI.  *)
(* ChunkType (chunk_type.rs), Chunk (chunk.rs), Png (png.rs) and the       *)
(* Encode / Decode / Remove commands (commands.rs).                        *)
(*                                                                         *)
(* Bytes are naturals 0..255, byte slices are sequences of bytes, a text   *)
(* is a sequence of Unicode code points, and a u32 checksum is the pair of *)
(* its 16-bit halves (TLC's integers stop at 2^31 - 1).                    *)
(***************************************************************************)
EXTENDS Naturals, Integers, Sequences, FiniteSets, TLC

VARIABLES
    ptr_width,   \* size of usize in bytes on the build target: 4 or 8
    ty_text,     \* ChunkType harness: the text last handed to from_str
    ty_result,   \* ChunkType harness: the Result of the last constructor call
    ty_shown,    \* ChunkType harness: to_string() of the constructed value
    ck_chunk,    \* Chunk harness: the Chunk last built by Chunk::new
    ck_bytes,    \* Chunk harness: the byte slice in hand
    ck_origin,   \* Chunk harness: where ck_bytes comes from
    ck_result,   \* Chunk harness: the Result of Chunk::try_from(ck_bytes)
    px_chunks,   \* Png harness: the Chunks whose serializations were joined
    px_bytes,    \* Png harness: the byte slice in hand
    px_origin,   \* Png harness: where px_bytes comes from
    px_result,   \* Png harness: the Result of Png::try_from(px_bytes)
    fs,          \* CLI: the bytes of the file at each path, NoFile if absent
    last,        \* CLI: the command run last and what it reported
    runs         \* CLI: how many commands have run

vars == <<ptr_width, ty_text, ty_result, ty_shown, ck_chunk, ck_bytes, ck_origin,
          ck_result, px_chunks, px_bytes, px_origin, px_result, fs, last, runs>>

tyVars == <<ty_text, ty_result, ty_shown>>
ckVars == <<ck_chunk, ck_bytes, ck_origin, ck_result>>
pxVars == <<px_chunks, px_bytes, px_origin, px_result>>
cliVars == <<fs, last, runs>>

-----------------------------------------------------------------------------
(* Bounds of the model *)

\* longest payload / message, in bytes
MaxData == 2

\* longest text handed to ChunkType::from_str, in characters
MaxText == 5

\* most Chunks joined into one container
MaxChunks == 2

\* most commands run one after the other
MaxRuns == 2

-----------------------------------------------------------------------------
(* Bytes, big-endian integers, UTF-8 *)

Byte == 0..255

RECURSIVE to_be_bytes(_, _)
\* n.to_be_bytes() for an unsigned integer type of `width` bytes
to_be_bytes(n, width) ==
    IF width = 0 THEN <<>> ELSE Append(to_be_bytes(n \div 256, width - 1), n % 256)

RECURSIVE from_be_bytes(_)
\* u32::from_be_bytes(b) as a natural number
from_be_bytes(b) ==
    IF Len(b) = 0 THEN 0
    ELSE from_be_bytes(SubSeq(b, 1, Len(b) - 1)) * 256 + b[Len(b)]

\* slice.split_at(mid): the caller checks mid <= len (it panics otherwise)
split_at(s, mid) == <<SubSeq(s, 1, mid), SubSeq(s, mid + 1, Len(s))>>

RECURSIVE Concat(_)
\* the concatenation of a sequence of byte sequences
Concat(ss) == IF Len(ss) = 0 THEN <<>> ELSE Head(ss) \o Concat(Tail(ss))

\* char::encode_utf8: the UTF-8 bytes of one code point (up to U+FFFF)
Utf8Char(c) ==
    IF c < 128 THEN <<c>>
    ELSE IF c < 2048 THEN <<192 + (c \div 64), 128 + (c % 64)>>
    ELSE <<224 + (c \div 4096), 128 + ((c \div 64) % 64), 128 + (c % 64)>>

RECURSIVE Utf8(_)
\* str::as_bytes / String::into_bytes: the UTF-8 bytes of a text
Utf8(s) == IF Len(s) = 0 THEN <<>> ELSE Utf8Char(Head(s)) \o Utf8(Tail(s))

IsCont(b) == b >= 128 /\ b < 192

RECURSIVE from_utf8(_)
\* String::from_utf8: the text of a byte sequence, or NotUtf8
from_utf8(b) ==
    IF Len(b) = 0 THEN [kind |-> "Ok", text |-> <<>>]
    ELSE LET h == b[1]
             n == IF h < 128 THEN 1
                  ELSE IF h >= 194 /\ h < 224 THEN 2
                  ELSE IF h >= 224 /\ h < 240 THEN 3
                  ELSE 0
             wellFormed ==
                 /\ n > 0
                 /\ Len(b) >= n
                 /\ \A i \in 2..n : IsCont(b[i])
                 /\ (n = 3 /\ h = 224) => b[2] >= 160
                 /\ (n = 3 /\ h = 237) => b[2] < 160
             c == IF n = 1 THEN h
                  ELSE IF n = 2 THEN (h - 192) * 64 + (b[2] - 128)
                  ELSE (h - 224) * 4096 + (b[2] - 128) * 64 + (b[3] - 128)
         IN IF ~wellFormed THEN [kind |-> "Err", msg |-> "invalid utf-8 sequence"]
            ELSE LET rest == from_utf8(SubSeq(b, n + 1, Len(b)))
                 IN IF rest.kind = "Ok"
                    THEN [kind |-> "Ok", text |-> <<c>> \o rest.text]
                    ELSE rest

-----------------------------------------------------------------------------
(* CRC-32/ISO-HDLC.  A u32 checksum is the pair <<high 16 bits, low 16 bits>> *)

RECURSIVE Xor16(_, _)
\* bitwise exclusive or of two naturals
Xor16(a, b) ==
    IF a = 0 THEN b
    ELSE IF b = 0 THEN a
    ELSE ((a + b) % 2) + 2 * Xor16(a \div 2, b \div 2)

Xor32(a, b) == <<Xor16(a[1], b[1]), Xor16(a[2], b[2])>>

\* v >> 1
Shr1(v) == <<v[1] \div 2, (v[2] \div 2) + (v[1] % 2) * 32768>>

\* the reflected polynomial 0xEDB88320 of CRC_32_ISO_HDLC
CrcPoly == <<60856, 33568>>

\* init and xorout of CRC_32_ISO_HDLC: 0xFFFFFFFF
AllOnes == <<65535, 65535>>

RECURSIVE CrcShift(_, _)
CrcShift(reg, k) ==
    IF k = 0 THEN reg
    ELSE IF reg[2] % 2 = 1 THEN CrcShift(Xor32(Shr1(reg), CrcPoly), k - 1)
    ELSE CrcShift(Shr1(reg), k - 1)

RECURSIVE CrcUpdate(_, _)
CrcUpdate(reg, bytes) ==
    IF Len(bytes) = 0 THEN reg
    ELSE CrcUpdate(CrcShift(Xor32(reg, <<0, Head(bytes)>>), 8), Tail(bytes))

\* crc::Crc::<u32>::new(&crc::CRC_32_ISO_HDLC).checksum(bytes)
checksum(bytes) == Xor32(CrcUpdate(AllOnes, bytes), AllOnes)

\* u32::to_be_bytes of a checksum
crc_to_be_bytes(v) == <<v[1] \div 256, v[1] % 256, v[2] \div 256, v[2] % 256>>

\* u32::from_be_bytes to a checksum
crc_from_be_bytes(b) == <<b[1] * 256 + b[2], b[3] * 256 + b[4]>>

-----------------------------------------------------------------------------
(* ChunkType *)

is_ascii(b) == b < 128

is_ascii_alphabetic(b) == (b >= 65 /\ b <= 90) \/ (b >= 97 /\ b <= 122)

None == [kind |-> "None"]
Some(v) == [kind |-> "Some", val |-> v]
Ok(v) == [kind |-> "Ok", val |-> v]
Err(m) == [kind |-> "Err", msg |-> m]
Panic == [kind |-> "Panic"]

\* from_str with is_ascii in the place of is_ascii_alphabetic
ChunkTypeFromStr_AsciiOnly(s) ==
    LET value == Utf8(s)
    IN IF Len(value) > 4 \/ Len(value) < 4
       THEN Err("Invalid string length")
       ELSE IF \E i \in 1..4 : ~is_ascii(value[i])
            THEN Err("All characters must be alphabetic")
            ELSE Ok([bytes |-> value])

\* impl TryFrom<String> for ChunkType; FromStr::from_str delegates to it
ChunkTypeFromStr(s) ==
    LET value == Utf8(s)
    IN IF Len(value) > 4 \/ Len(value) < 4
       THEN Err("Invalid string length")
       ELSE IF \E i \in 1..4 : ~is_ascii_alphabetic(value[i])
            THEN Err("All characters must be alphabetic")
            ELSE Ok([bytes |-> value])

\* impl TryFrom<[u8; 4]> for ChunkType
ChunkTypeFromBytes(value) ==
    IF \E i \in 1..4 : ~is_ascii(value[i])
    THEN Err("Invalid byte: Byte must be in range [65-90] or [97-122]")
    ELSE Ok([bytes |-> value])

\* impl Display for ChunkType
ChunkTypeToString(t) == from_utf8(t.bytes).text

\* (b >> 5) & 1
fifth_bit(b) == (b \div 32) % 2

is_critical(t) == fifth_bit(t.bytes[1]) = 0
is_public(t) == fifth_bit(t.bytes[2]) = 0
is_reserved_bit_valid(t) == fifth_bit(t.bytes[3]) = 0
is_safe_to_copy(t) == fifth_bit(t.bytes[4]) = 1

is_valid(t) == (\A i \in 1..4 : is_ascii(t.bytes[i])) /\ is_reserved_bit_valid(t)

-----------------------------------------------------------------------------
(* Chunk *)

CHUNK_TYPE_BYTES_LEN == 4
DATA_LEN_BYTES_LEN == 4
CRC_BYTES_LEN == 4

\* Chunk::crc: the CRC-32 of the type bytes followed by the data
ChunkCrc(c) == checksum(c.type_.bytes \o c.data)

\* Chunk::length
ChunkLength(c) == Len(c.data)

\* Chunk::new: `length` is the length of the type bytes chained with the data
ChunkNew(chunk_type, data) ==
    LET bytes == chunk_type.bytes \o data
        payload == [length |-> Len(bytes), type_ |-> chunk_type, data |-> data, crc |-> <<0, 0>>]
    IN [payload EXCEPT !.crc = ChunkCrc(payload)]

\* Chunk::data_as_string
data_as_string(c) == from_utf8(c.data)

\* Chunk::as_bytes: data.len() is a usize, so its to_be_bytes() has usize's width
ChunkAsBytes(c, usize_bytes) ==
    to_be_bytes(Len(c.data), usize_bytes) \o c.type_.bytes \o c.data
        \o crc_to_be_bytes(ChunkCrc(c))

\* the comparison on the low 16 bits alone
CrcDiffers_LowHalf(expected_crc, crc_) == expected_crc[2] # crc_[2]

\* chunk.rs line 49: expected_crc != crc_
CrcDiffers(expected_crc, crc_) == expected_crc # crc_

\* impl TryFrom<&[u8]> for Chunk
ChunkTryFrom(value) ==
    IF Len(value) = 0
       \/ Len(value) < CHUNK_TYPE_BYTES_LEN + CRC_BYTES_LEN + DATA_LEN_BYTES_LEN
    THEN Err("Type and CRC bytes missing")
    ELSE
    LET s1 == split_at(value, DATA_LEN_BYTES_LEN)
        data_len_bytes == s1[1]
        s2 == split_at(s1[2], CHUNK_TYPE_BYTES_LEN)
        chunk_type_bytes == s2[1]
        rest == s2[2]
        type_ == ChunkTypeFromBytes(chunk_type_bytes)
        length == from_be_bytes(data_len_bytes)
    IN IF type_.kind = "Err" THEN type_
       ELSE IF ~is_valid(type_.val) THEN Err("Chunk type not valid")
       ELSE IF length > Len(rest) THEN Panic      \* split_at: mid > len
       ELSE
       LET s3 == split_at(rest, length)
           data == s3[1]
           crc_bytes == s3[2]
       IN IF Len(crc_bytes) # 4 THEN Err("could not convert slice to array")
          ELSE
          LET expected_crc == crc_from_be_bytes(crc_bytes)
              payload == [length |-> length, type_ |-> type_.val, data |-> data,
                          crc |-> expected_crc]
              crc_ == ChunkCrc(payload)
          IN IF CrcDiffers(expected_crc, crc_)
             THEN [kind |-> "Err", msg |-> "CRC mismatch. Bytes might have been corrupted",
                   expected |-> expected_crc, actual |-> crc_]
             ELSE Ok(payload)

-----------------------------------------------------------------------------
(* Png *)

STANDAR_HEADER == <<137, 80, 78, 71, 13, 10, 26, 10>>
STD_HEADER_LENGTH == 8

RECURSIVE PngReadChunks(_, _)
\* the while loop of Png::try_from over the bytes left in buf_reader.
\* chunk_buffer is Vec::with_capacity(chunk_bytes_len): its length is 0, so
\* read_exact(&mut chunk_buffer) reads nothing and succeeds.
PngReadChunks(remaining, chunks) ==
    IF Len(remaining) < 4 THEN Ok([chunks |-> chunks])     \* read_exact fails: loop ends
    ELSE
    LET chunk_data_len == SubSeq(remaining, 1, 4)
        after_len == SubSeq(remaining, 5, Len(remaining))
        chunk_buffer == <<>>
        after_chunk == SubSeq(after_len, Len(chunk_buffer) + 1, Len(after_len))
        chunk_bytes == chunk_data_len \o chunk_buffer
        chunk == ChunkTryFrom(chunk_bytes)
    IN IF chunk.kind # "Ok" THEN chunk
       ELSE PngReadChunks(after_chunk, Append(chunks, chunk.val))

\* impl TryFrom<&[u8]> for Png
PngTryFrom(bytes) ==
    IF Len(bytes) < STD_HEADER_LENGTH THEN Err("Png bytes length less than 8")
    ELSE
    LET s == split_at(bytes, STD_HEADER_LENGTH)
    IN IF s[1] # STANDAR_HEADER
       THEN Err("First 8 bytes doesn't correpond to the PNG spec")
       ELSE PngReadChunks(s[2], <<>>)

\* Png::append_chunk: adds the chunk at the end
PngAppendChunk(png, chunk) == [chunks |-> Append(png.chunks, chunk)]

\* Png::chunk_by_type: the first chunk whose type formats to the text
PngChunkByType(png, text) ==
    LET hits == {i \in 1..Len(png.chunks) : ChunkTypeToString(png.chunks[i].type_) = text}
    IN IF hits = {} THEN None
       ELSE Some(png.chunks[CHOOSE i \in hits : \A j \in hits : i <= j])

\* Png::remove_chunk: removes the first chunk whose type formats to the text
PngRemoveChunk(png, text) ==
    LET hits == {i \in 1..Len(png.chunks) : ChunkTypeToString(png.chunks[i].type_) = text}
        first == CHOOSE i \in hits : \A j \in hits : i <= j
    IN IF hits = {} THEN Err("Chunk not found")
       ELSE Ok([chunks |-> SubSeq(png.chunks, 1, first - 1)
                            \o SubSeq(png.chunks, first + 1, Len(png.chunks))])

\* Png::as_bytes: the header followed by each chunk's as_bytes()
PngAsBytes(png, usize_bytes) ==
    STANDAR_HEADER
        \o Concat([i \in 1..Len(png.chunks) |-> ChunkAsBytes(png.chunks[i], usize_bytes)])

-----------------------------------------------------------------------------
(* Inputs *)

\* usize is 4 bytes on 32-bit targets and 8 bytes on 64-bit targets
PtrWidths == {4, 8}

\* 'S', 't', '1', U+00E9 (two bytes in UTF-8)
Chars == {83, 116, 49, 233}

Texts == UNION {[1..n -> Chars] : n \in 0..MaxText}

\* "RuSt", "ruSt", "Rust" (reserved bit set), and a tag with a non-ASCII byte
TypeBytes == {<<82, 117, 83, 116>>, <<114, 117, 83, 116>>, <<82, 117, 115, 116>>,
              <<82, 117, 83, 200>>}

\* the ChunkTypes that TryFrom<[u8; 4]> constructs
ChunkTypes == {ChunkTypeFromBytes(b).val : b \in {x \in TypeBytes : ChunkTypeFromBytes(x).kind = "Ok"}}

\* 'h' and 0xC3 (not UTF-8 on its own)
DataBytes == {104, 195}

Payloads == UNION {[1..n -> DataBytes] : n \in 0..MaxData}

\* the checksum field of a serialized chunk: right, one byte changed, or cut short
CrcFields(tb, d) ==
    LET good == crc_to_be_bytes(checksum(tb \o d))
    IN {good, SubSeq(good, 1, 3)} \cup {[good EXCEPT ![k] = (@ + 1) % 256] : k \in 1..4}

\* declared lengths: up to past the end of the longest input, and one two-byte value
DeclaredLengths == 0..(MaxData + 5) \cup {256}

\* byte slices handed to Chunk::try_from
ChunkInputs ==
    {<<>>, <<0, 0, 0, 0>>}
    \cup UNION {UNION {{to_be_bytes(n, 4) \o tb \o d \o c :
                          n \in DeclaredLengths, c \in CrcFields(tb, d)} :
                        d \in Payloads} :
                 tb \in TypeBytes}

\* the chunks a client builds with Chunk::new from a valid type
ValidChunks == {ChunkNew(t, d) : t \in {x \in ChunkTypes : is_valid(x)}, d \in Payloads}

ChunkSeqs == UNION {[1..n -> ValidChunks] : n \in 0..MaxChunks}

\* a chunk as a PNG file holds it: 4-byte length, type, data, CRC-32
FileChunk(tb, d) == to_be_bytes(Len(d), 4) \o tb \o d \o crc_to_be_bytes(checksum(tb \o d))

\* byte slices handed to Png::try_from: cut-off and damaged headers, the bare
\* header, and the header followed by stray bytes, chunks, and damaged chunks
PngInputs ==
    {SubSeq(STANDAR_HEADER, 1, k) : k \in 0..7}
    \cup {[STANDAR_HEADER EXCEPT ![k] = 0] \o body :
            k \in {1, 8}, body \in {<<>>, FileChunk(<<82, 117, 83, 116>>, <<104>>)}}
    \cup {STANDAR_HEADER \o body \o tail :
            body \in {<<>>, FileChunk(<<82, 117, 83, 116>>, <<104>>),
                       FileChunk(<<114, 117, 83, 116>>, <<>>)
                           \o FileChunk(<<82, 117, 83, 116>>, <<104>>)},
            tail \in {<<>>, <<0>>, <<0, 0>>, <<0, 0, 0>>, <<0, 0, 0, 1>>,
                       <<0, 0, 0, 0, 82, 117, 83>>}}

\* the paths the commands are given: Encode reads "in.png"
Paths == {"in.png", "out.png"}
EncodePaths == {"in.png"}
OutputArgs == {None, Some("out.png")}

NoFile == [kind |-> "NoFile"]
File(bytes) == [kind |-> "File", bytes |-> bytes]

\* --chunk-type arguments: "RuSt", "ruSt", "Ru1t"
TypeArgs == {<<82, 117, 83, 116>>, <<114, 117, 83, 116>>, <<82, 117, 49, 116>>}

\* --message arguments: texts over 'h' and U+00E9 of at most MaxData bytes
Messages == {m \in UNION {[1..n -> {104, 233}] : n \in 1..MaxData} : Len(Utf8(m)) <= MaxData}

\* what the file at file_path holds before the first command
InitialFiles ==
    {STANDAR_HEADER,
     STANDAR_HEADER \o <<0>>,
     [STANDAR_HEADER EXCEPT ![1] = 0],
     STANDAR_HEADER \o FileChunk(<<82, 117, 83, 116>>, <<104>>),
     STANDAR_HEADER \o FileChunk(<<114, 117, 83, 116>>, <<>>)
         \o FileChunk(<<82, 117, 83, 116>>, <<104>>)
         \o FileChunk(<<82, 117, 83, 116>>, <<104, 104>>)}

-----------------------------------------------------------------------------
(* State *)

TyIdle == ty_text = None /\ ty_result = None /\ ty_shown = None
CkIdle == ck_chunk = None /\ ck_bytes = <<>> /\ ck_origin = "none" /\ ck_result = None

-----------------------------------------------------------------------------
(* ChunkType, called by a client *)

\* ChunkType::from_str(s)
TyFromStr(s) ==
    /\ ty_text = None
    /\ ty_text' = Some(s)
    /\ ty_result' = ChunkTypeFromStr(s)
    /\ ty_shown' = None
    /\ UNCHANGED <<ptr_width, ckVars, pxVars, cliVars>>

\* to_string() of the ChunkType constructed last
TyToString ==
    /\ ty_result.kind = "Ok"
    /\ ty_shown = None
    /\ ty_shown' = Some(ChunkTypeToString(ty_result.val))
    /\ UNCHANGED <<ptr_width, ty_text, ty_result, ckVars, pxVars, cliVars>>

NextChunkType ==
    \/ \E s \in Texts : TyFromStr(s)
    \/ TyToString

-----------------------------------------------------------------------------
(* Chunk, called by a client *)

\* Chunk::new(t, d)
CkNew(t, d) ==
    /\ ck_origin = "none"
    /\ ck_chunk = None
    /\ ck_chunk' = Some(ChunkNew(t, d))
    /\ ck_bytes' = <<>>
    /\ ck_origin' = "none"
    /\ ck_result' = None
    /\ UNCHANGED <<ptr_width, tyVars, pxVars, cliVars>>

\* as_bytes() of the Chunk built last
CkAsBytes ==
    /\ ck_chunk.kind = "Some"
    /\ ck_origin = "none"
    /\ ck_bytes' = ChunkAsBytes(ck_chunk.val, ptr_width)
    /\ ck_origin' = "as_bytes"
    /\ UNCHANGED <<ptr_width, ck_chunk, ck_result, tyVars, pxVars, cliVars>>

\* the client brings a byte slice of its own
CkInput(b) ==
    /\ ck_origin = "none"
    /\ ck_chunk = None
    /\ ck_chunk' = None
    /\ ck_bytes' = b
    /\ ck_origin' = "input"
    /\ ck_result' = None
    /\ UNCHANGED <<ptr_width, tyVars, pxVars, cliVars>>

\* Chunk::try_from(ck_bytes)
CkTryFrom ==
    /\ ck_origin # "none"
    /\ ck_result = None
    /\ ck_result' = ChunkTryFrom(ck_bytes)
    /\ UNCHANGED <<ptr_width, ck_chunk, ck_bytes, ck_origin, tyVars, pxVars, cliVars>>

NextChunk ==
    \/ \E t \in ChunkTypes, d \in Payloads : CkNew(t, d)
    \/ CkAsBytes
    \/ \E b \in ChunkInputs : CkInput(b)
    \/ CkTryFrom

-----------------------------------------------------------------------------
(* Png, called by a client *)

PxIdle == px_chunks = <<>> /\ px_bytes = <<>> /\ px_origin = "none" /\ px_result = None

\* the client joins the header and the as_bytes() of each of its chunks
PxSerialize(cs) ==
    /\ px_origin = "none"
    /\ px_chunks' = cs
    /\ px_bytes' = STANDAR_HEADER \o Concat([i \in 1..Len(cs) |-> ChunkAsBytes(cs[i], ptr_width)])
    /\ px_origin' = "serialized"
    /\ UNCHANGED <<ptr_width, px_result, tyVars, ckVars, cliVars>>

\* the client brings a byte slice of its own
PxInput(b) ==
    /\ px_origin = "none"
    /\ px_bytes' = b
    /\ px_origin' = "input"
    /\ UNCHANGED <<ptr_width, px_chunks, px_result, tyVars, ckVars, cliVars>>

\* Png::try_from(px_bytes)
PxTryFrom ==
    /\ px_origin # "none"
    /\ px_result = None
    /\ px_result' = PngTryFrom(px_bytes)
    /\ UNCHANGED <<ptr_width, px_chunks, px_bytes, px_origin, tyVars, ckVars, cliVars>>

NextPng ==
    \/ \E cs \in ChunkSeqs : PxSerialize(cs)
    \/ \E b \in PngInputs : PxInput(b)
    \/ PxTryFrom

-----------------------------------------------------------------------------
(* The commands *)

\* write_all from offset 0 into a file opened without truncate
Overwrite(old, new) == new \o SubSeq(old, Len(new) + 1, Len(old))

\* what a command was given, what the file at file_path held, what it
\* returned and what it printed
Report(cmd, path, type, msg, out, result, printed) ==
    [cmd |-> cmd, path |-> path, type |-> type, msg |-> msg, out |-> out,
     before |-> fs[path], result |-> result, printed |-> printed]

NoReport == [cmd |-> "none"]

\* Command::Encode: Cli::run converts chunk_type, then Cli::encode
Encode(file_path, chunk_type, message, output_file) ==
    LET t == ChunkTypeFromStr(chunk_type)
        png == PngTryFrom(fs[file_path].bytes)
        chunk == ChunkNew(t.val, Utf8(message))
        bytes == PngAsBytes(PngAppendChunk(png.val, chunk), ptr_width)
        target == IF output_file = None THEN file_path ELSE output_file.val
        old == IF fs[target].kind = "File" THEN fs[target].bytes ELSE <<>>
        result == IF t.kind # "Ok" THEN t
                  ELSE IF fs[file_path].kind # "File" THEN Err("No such file or directory")
                  ELSE IF png.kind # "Ok" THEN png
                  ELSE Ok(<<>>)
    IN /\ runs < MaxRuns
       /\ runs' = runs + 1
       /\ fs' = IF result.kind = "Ok"
                THEN [fs EXCEPT ![target] = File(Overwrite(old, bytes))]
                ELSE fs
       /\ last' = Report("encode", file_path, chunk_type, Some(message), output_file, result, None)
       /\ UNCHANGED <<ptr_width, tyVars, ckVars, pxVars>>

\* Command::Decode: Cli::decode
Decode(file_path, chunk_type) ==
    LET png == PngTryFrom(fs[file_path].bytes)
        chunk == PngChunkByType(png.val, chunk_type)
        msg == data_as_string(chunk.val)
        result == IF fs[file_path].kind # "File" THEN Err("No such file or directory")
                  ELSE IF png.kind # "Ok" THEN png
                  ELSE Ok(<<>>)
        printed == IF result.kind # "Ok" THEN None
                  ELSE IF chunk = None THEN [kind |-> "Message not found"]
                  ELSE IF msg.kind = "Ok" THEN [kind |-> "Message", text |-> msg.text]
                  ELSE [kind |-> "Message bytes", data |-> chunk.val.data]
    IN /\ runs < MaxRuns
       /\ runs' = runs + 1
       /\ last' = Report("decode", file_path, chunk_type, None, None, result, printed)
       /\ UNCHANGED <<ptr_width, fs, tyVars, ckVars, pxVars>>

\* Command::Remove: Cli::remove
Remove(file_path, chunk_type) ==
    LET png == PngTryFrom(fs[file_path].bytes)
        removed == PngRemoveChunk(png.val, chunk_type)
        result == IF fs[file_path].kind # "File" THEN Err("No such file or directory")
                  ELSE IF png.kind # "Ok" THEN png
                  ELSE Ok(<<>>)
        printed == IF result.kind # "Ok" THEN None
                  ELSE IF removed.kind = "Ok" THEN [kind |-> "Chunk removed successfully"]
                  ELSE [kind |-> "Chunk not found"]
    IN /\ runs < MaxRuns
       /\ runs' = runs + 1
       /\ last' = Report("remove", file_path, chunk_type, None, None, result, printed)
       /\ UNCHANGED <<ptr_width, fs, tyVars, ckVars, pxVars>>

Next ==
    \/ \E p \in EncodePaths, t \in TypeArgs, m \in Messages, o \in OutputArgs :
          Encode(p, t, m, o)
    \/ \E p \in Paths, t \in TypeArgs : Decode(p, t)
    \/ \E p \in Paths, t \in TypeArgs : Remove(p, t)

-----------------------------------------------------------------------------
(* Specifications *)

\* the library before any call: no file is involved
InitLib ==
    /\ ptr_width \in PtrWidths
    /\ TyIdle
    /\ CkIdle
    /\ PxIdle
    /\ fs = [p \in Paths |-> NoFile]
    /\ last = NoReport
    /\ runs = 0

\* the command line tool before the first command
Init ==
    /\ ptr_width \in PtrWidths
    /\ TyIdle
    /\ CkIdle
    /\ PxIdle
    /\ \E b \in InitialFiles, o \in {NoFile, File(STANDAR_HEADER \o <<0, 0>>)} :
          fs = [p \in Paths |-> IF p = "in.png" THEN File(b) ELSE o]
    /\ last = NoReport
    /\ runs = 0

SpecChunkType == InitLib /\ [][NextChunkType]_vars

SpecChunk == InitLib /\ [][NextChunk]_vars

SpecPng == InitLib /\ [][NextPng]_vars

Spec == Init /\ [][Next]_vars

-----------------------------------------------------------------------------
(* The container format as the documentation lays it out, for stating the  *)
(* claims: 8-byte header, then per record a 4-byte big-endian length, 4    *)
(* type bytes, the payload, and the 4-byte big-endian CRC-32.              *)

IsLetter(c) == (c >= 65 /\ c <= 90) \/ (c >= 97 /\ c <= 122)

\* a valid type tag: four ASCII bytes, the third with bit 0x20 clear
TagValid(tb) == Len(tb) = 4 /\ (\A i \in 1..4 : tb[i] <= 127) /\ (tb[3] \div 32) % 2 = 0

BE32(n) == <<n \div 16777216, (n \div 65536) % 256, (n \div 256) % 256, n % 256>>

RecordLayout(tb, d) == BE32(Len(d)) \o tb \o d \o crc_to_be_bytes(checksum(tb \o d))

RECURSIVE Records(_)
\* the records a byte sequence encodes, or Malformed
Records(body) ==
    IF Len(body) = 0 THEN Ok(<<>>)
    ELSE IF Len(body) < 12 THEN Err("Malformed")
    ELSE LET n == from_be_bytes(SubSeq(body, 1, 4))
             tb == SubSeq(body, 5, 8)
         IN IF Len(body) < 12 + n THEN Err("Malformed")
            ELSE LET d == SubSeq(body, 9, 8 + n)
                 IN IF ~TagValid(tb) \/ SubSeq(body, 1, 12 + n) # RecordLayout(tb, d)
                    THEN Err("Malformed")
                    ELSE LET rest == Records(SubSeq(body, 13 + n, Len(body)))
                         IN IF rest.kind = "Ok"
                            THEN Ok(<<[type |-> tb, data |-> d]>> \o rest.val)
                            ELSE rest

HasHeader(b) == Len(b) >= 8 /\ SubSeq(b, 1, 8) = <<137, 80, 78, 71, 13, 10, 26, 10>>

\* the header followed by zero or more complete, well-formed records
IsContainer(b) == HasHeader(b) /\ Records(SubSeq(b, 9, Len(b))).kind = "Ok"

ContainerRecords(b) == Records(SubSeq(b, 9, Len(b))).val

ContainerLayout(rs) ==
    <<137, 80, 78, 71, 13, 10, 26, 10>>
        \o Concat([i \in 1..Len(rs) |-> RecordLayout(rs[i].type, rs[i].data)])

\* rs without its first record of the type
WithoutFirst(rs, tb) ==
    LET hits == {i \in 1..Len(rs) : rs[i].type = tb}
        first == CHOOSE i \in hits : \A j \in hits : i <= j
    IN IF hits = {} THEN rs ELSE SubSeq(rs, 1, first - 1) \o SubSeq(rs, first + 1, Len(rs))

TooShortChunk == Err("Type and CRC bytes missing")
TooShortPng == Err("Png bytes length less than 8")
BadMagic == Err("First 8 bytes doesn't correpond to the PNG spec")
InvalidLength == Err("Invalid string length")
InvalidCharacter == Err("All characters must be alphabetic")

IsChecksumMismatch(r) ==
    r.kind = "Err" /\ r.msg = "CRC mismatch. Bytes might have been corrupted"

\* same length, type, payload and checksum, read through the accessors
SameChunk(a, b) ==
    /\ ChunkLength(a) = ChunkLength(b)
    /\ a.type_ = b.type_
    /\ a.data = b.data
    /\ ChunkCrc(a) = ChunkCrc(b)

-----------------------------------------------------------------------------
(* Claims *)

\* C1: for every Chunk r built by Chunk::new from a valid type and any payload,
\* Chunk::try_from(r.as_bytes()) succeeds and returns a Chunk with the same
\* length, type, payload and checksum as r.
C1_RecordRoundTrip ==
    (ck_origin = "as_bytes" /\ ck_result # None /\ TagValid(ck_chunk.val.type_.bytes))
        => (ck_result.kind = "Ok" /\ SameChunk(ck_result.val, ck_chunk.val))

\* C2: for every sequence of N >= 0 Chunks with valid types, Png::try_from of
\* the header followed by each Chunk's as_bytes() succeeds and yields exactly
\* those N Chunks in the same order.
C2_ContainerRoundTrip ==
    (px_origin = "serialized" /\ px_result # None)
        => /\ px_result.kind = "Ok"
           /\ Len(px_result.val.chunks) = Len(px_chunks)
           /\ \A i \in 1..Len(px_chunks) : SameChunk(px_result.val.chunks[i], px_chunks[i])

\* C3: from a file that holds a valid container with no record of type t,
\* Encode with a valid type t and message m, followed by Decode for t on the
\* file Encode wrote, parses and reports the message m.
C3_EncodeThenDecode ==
    [][(/\ last.cmd = "encode"
        /\ last'.cmd = "decode"
        /\ last.before.kind = "File"
        /\ IsContainer(last.before.bytes)
        /\ TagValid(last.type) /\ (\A i \in 1..4 : IsLetter(last.type[i]))
        /\ \A i \in 1..Len(ContainerRecords(last.before.bytes)) :
              ContainerRecords(last.before.bytes)[i].type # last.type
        /\ last'.path = (IF last.out = None THEN last.path ELSE last.out.val)
        /\ last'.type = last.type)
       => (/\ last'.result.kind = "Ok"
           /\ last'.printed = [kind |-> "Message", text |-> last.msg.val])]_vars

\* C4: for every Chunk r with a payload of n bytes, r.as_bytes() is 12 + n bytes:
\* the 4-byte big-endian n, the 4 type bytes, the payload, and the 4-byte
\* big-endian CRC-32 of the type bytes followed by the payload.
C4_SerializationLayout ==
    ck_origin = "as_bytes"
        => /\ Len(ck_bytes) = 12 + Len(ck_chunk.val.data)
           /\ ck_bytes = RecordLayout(ck_chunk.val.type_.bytes, ck_chunk.val.data)

\* the input is BE32(n) ++ valid type ++ n payload bytes ++ a 4-byte field that
\* is not the CRC-32 of type ++ payload
IsTampered(b) ==
    /\ Len(b) >= 12
    /\ Len(b) = 12 + from_be_bytes(SubSeq(b, 1, 4))
    /\ TagValid(SubSeq(b, 5, 8))
    /\ SubSeq(b, Len(b) - 3, Len(b)) # crc_to_be_bytes(checksum(SubSeq(b, 5, Len(b) - 4)))

\* C5: Chunk::try_from of a well-laid-out chunk with a valid type whose checksum
\* field differs from the CRC-32 of type ++ payload fails with the checksum
\* mismatch error.
C5_TamperingDetected ==
    (ck_origin = "input" /\ ck_result # None /\ IsTampered(ck_bytes))
        => IsChecksumMismatch(ck_result)

\* C5 witness: a chunk with a payload and a changed checksum byte was rejected
C5_Witness ==
    /\ ck_origin = "input"
    /\ IsTampered(ck_bytes)
    /\ Len(ck_bytes) > 12
    /\ ck_result # None
    /\ IsChecksumMismatch(ck_result)

\* C6: Chunk::try_from returns a Chunk or an error for every input and never
\* aborts; an input of 12 bytes or more (with a valid type) whose declared
\* length exceeds the bytes after the length and type fields fails with TooShort.
C6_ParseIsTotal ==
    ck_result # None
        => /\ ck_result.kind \in {"Ok", "Err"}
           /\ (/\ Len(ck_bytes) >= 12
               /\ TagValid(SubSeq(ck_bytes, 5, 8))
               /\ from_be_bytes(SubSeq(ck_bytes, 1, 4)) > Len(ck_bytes) - 8)
              => ck_result = TooShortChunk

\* C7: Png::try_from succeeds only on the header followed by zero or more
\* complete, well-formed records; under 8 bytes it fails with TooShort, with
\* other first 8 bytes with BadMagic, and any other input yields an error.
C7_AllOrNothing ==
    px_result # None
        => /\ px_result.kind = "Ok" => IsContainer(px_bytes)
           /\ Len(px_bytes) < 8 => px_result = TooShortPng
           /\ (Len(px_bytes) >= 8 /\ ~HasHeader(px_bytes)) => px_result = BadMagic
           /\ ~IsContainer(px_bytes) => px_result.kind = "Err"

\* C8 as stated: from_str(s) fails with InvalidLength when s is not 4 characters
\* long, with InvalidCharacter when s has 4 characters and one is not an ASCII
\* letter, and otherwise succeeds with bytes() the characters of s, so that
\* to_string() returns s.
C8_FromStrByCharacters ==
    ty_text # None
        => LET s == ty_text.val
           IN /\ Len(s) # 4 => ty_result = InvalidLength
              /\ (Len(s) = 4 /\ \E i \in 1..4 : ~IsLetter(s[i])) => ty_result = InvalidCharacter
              /\ (Len(s) = 4 /\ \A i \in 1..4 : IsLetter(s[i]))
                    => /\ ty_result.kind = "Ok"
                       /\ ty_result.val.bytes = s
                       /\ ty_shown # None => ty_shown.val = s

\* C8 amended: from_str(s) fails with InvalidLength when the UTF-8 encoding of s
\* is not 4 bytes long, with InvalidCharacter when it is 4 bytes long and one
\* byte is not an ASCII letter, and otherwise succeeds with bytes() the
\* characters of s, so that to_string() returns s.
C8_FromStrByBytes ==
    ty_text # None
        => LET s == ty_text.val
               u == Utf8(s)
           IN /\ Len(u) # 4 => ty_result = InvalidLength
              /\ (Len(u) = 4 /\ \E i \in 1..4 : ~IsLetter(u[i])) => ty_result = InvalidCharacter
              /\ (Len(u) = 4 /\ \A i \in 1..4 : IsLetter(u[i]))
                    => /\ ty_result.kind = "Ok"
                       /\ ty_result.val.bytes = s
                       /\ ty_shown # None => ty_shown.val = s

\* C8 witness: a text of four letters was constructed and formatted back
C8_Witness ==
    /\ ty_text # None
    /\ Len(ty_text.val) = 4
    /\ ty_result.kind = "Ok"
    /\ ty_shown # None
    /\ ty_shown.val = ty_text.val

ChunkInvariant(c) ==
    /\ c.length = Len(c.data)
    /\ c.length = ChunkLength(c)
    /\ c.crc = checksum(c.type_.bytes \o c.data)
    /\ c.crc = ChunkCrc(c)

\* C9: for every Chunk from Chunk::new or from a successful Chunk::try_from, the
\* stored length is the number of payload bytes and agrees with length(), and
\* the stored checksum is the CRC-32 of type ++ payload and agrees with crc().
C9_RecordInvariant ==
    /\ ck_chunk # None => ChunkInvariant(ck_chunk.val)
    /\ (ck_result # None /\ ck_result.kind = "Ok") => ChunkInvariant(ck_result.val)

====
